---- MODULE Spec2Model ----
(***************************************************************************)
(* Model of the Intrepid term sheet analyzer (TermSheetAnalyzer component): *)
(* the component state that feeds the exit calculator (analysis,           *)
(* exitScenario, scenarios), the two calculation functions                 *)
(* calculateWaterfall and calculateCostOfCapital, the handlers that change *)
(* the exit scenario, and the analysis run (analyzeTermSheet with          *)
(* retryWithBackoff) together with the page handlers that interleave with  *)
(* it.                                                                     *)
(*                                                                         *)
(* Money amounts are in units of $1,000,000 (the unit of the calculator's  *)
(* inputs, which store e.target.value * 1000000), so that every product    *)
(* stays inside TLC's integers.  JavaScript numbers are modelled as exact  *)
(* rationals extended with NaN and +/-Infinity; null is a value of its own *)
(* that arithmetic converts to 0, as ToNumber(null) does.                  *)
(***************************************************************************)
EXTENDS Integers, Sequences, FiniteSets, TLC

VARIABLES analysis, exitScenario, scenarios,
          files, loading, error, showLanding, uploadCollapsed,
          apiKey, console, runs

\* the state of the page around the calculator: the useState values files
\* (the number of selected files), loading, error, showLanding and
\* uploadCollapsed, whether REACT_APP_OPENAI_API_KEY is configured, the kinds
\* of data written to the console so far, and the analyzeTermSheet calls in
\* flight (suspended at an await)
pageVars == <<files, loading, error, showLanding, uploadCollapsed,
              apiKey, console, runs>>

vars == <<analysis, exitScenario, scenarios,
          files, loading, error, showLanding, uploadCollapsed,
          apiKey, console, runs>>

----------------------------------------------------------------------------
(* JavaScript numbers.  A value is a record [k, n, d]:                      *)
(*   k = "fin"  : the rational n/d, d > 0, in lowest terms                  *)
(*   k = "inf"  : +Infinity (n = 1) or -Infinity (n = -1)                   *)
(*   k = "nan"  : NaN                                                       *)
(*   k = "null" : the value null                                            *)

Abs(x) == IF x < 0 THEN -x ELSE x

Sgn(x) == IF x < 0 THEN -1 ELSE IF x > 0 THEN 1 ELSE 0

RECURSIVE Gcd(_, _)
Gcd(a, b) == IF b = 0 THEN a ELSE Gcd(b, a % b)

Fin(n, d) ==
  LET g == Gcd(Abs(n), d)
  IN  [k |-> "fin", n |-> n \div g, d |-> d \div g]

Num(n) == [k |-> "fin", n |-> n, d |-> 1]

NaN == [k |-> "nan", n |-> 0, d |-> 1]

Infinity(s) == [k |-> "inf", n |-> s, d |-> 1]

Null == [k |-> "null", n |-> 0, d |-> 1]

ToNumber(v) == IF v.k = "null" THEN Num(0) ELSE v

Truthy(v) == /\ v.k # "null"
             /\ v.k # "nan"
             /\ ~(v.k = "fin" /\ v.n = 0)

OrElse(v, dflt) == IF Truthy(v) THEN v ELSE dflt

Mul(x, y) ==
  LET a == ToNumber(x)
      b == ToNumber(y)
  IN  IF a.k = "nan" \/ b.k = "nan" THEN NaN
      ELSE IF a.k = "inf" \/ b.k = "inf"
           THEN IF a.n = 0 \/ b.n = 0 THEN NaN
                ELSE Infinity(Sgn(a.n) * Sgn(b.n))
      ELSE LET g1 == Gcd(Abs(a.n), b.d)
               g2 == Gcd(Abs(b.n), a.d)
           IN  Fin((a.n \div g1) * (b.n \div g2), (a.d \div g2) * (b.d \div g1))

Div(x, y) ==
  LET a == ToNumber(x)
      b == ToNumber(y)
  IN  IF a.k = "nan" \/ b.k = "nan" THEN NaN
      ELSE IF a.k = "inf"
           THEN IF b.k = "inf" THEN NaN
                ELSE Infinity(IF b.n < 0 THEN -a.n ELSE a.n)
      ELSE IF b.k = "inf" THEN Num(0)
      ELSE IF b.n = 0
           THEN IF a.n = 0 THEN NaN ELSE Infinity(Sgn(a.n))
      ELSE Mul(a, [k |-> "fin", n |-> Sgn(b.n) * b.d, d |-> Abs(b.n)])

Add(x, y) ==
  LET a == ToNumber(x)
      b == ToNumber(y)
  IN  IF a.k = "nan" \/ b.k = "nan" THEN NaN
      ELSE IF a.k = "inf"
           THEN IF b.k = "inf" /\ b.n # a.n THEN NaN ELSE a
      ELSE IF b.k = "inf" THEN b
      ELSE LET g == Gcd(a.d, b.d)
           IN  Fin(a.n * (b.d \div g) + b.n * (a.d \div g), (a.d \div g) * b.d)

Neg(x) ==
  LET a == ToNumber(x)
  IN  IF a.k = "nan" THEN NaN ELSE [a EXCEPT !.n = -a.n]

Sub(x, y) == Add(x, Neg(y))

\* a < b on numbers; any comparison with NaN is false
Less(x, y) ==
  LET a == ToNumber(x)
      b == ToNumber(y)
  IN  IF a.k = "nan" \/ b.k = "nan" THEN FALSE
      ELSE IF a.k = "inf" THEN a.n < 0 /\ ~(b.k = "inf" /\ b.n < 0)
      ELSE IF b.k = "inf" THEN b.n > 0
      ELSE LET g == Gcd(a.d, b.d)
           IN  a.n * (b.d \div g) < b.n * (a.d \div g)

Greater(x, y) == Less(y, x)

LessEq(x, y) ==
  LET a == ToNumber(x)
      b == ToNumber(y)
  IN  IF a.k = "nan" \/ b.k = "nan" THEN FALSE ELSE ~Less(b, a)

MathMax(x, y) ==
  LET a == ToNumber(x)
      b == ToNumber(y)
  IN  IF a.k = "nan" \/ b.k = "nan" THEN NaN
      ELSE IF Less(a, b) THEN b ELSE a

MathMin(x, y) ==
  LET a == ToNumber(x)
      b == ToNumber(y)
  IN  IF a.k = "nan" \/ b.k = "nan" THEN NaN
      ELSE IF Less(b, a) THEN b ELSE a

\* Math.pow(b, e) for an integer exponent e >= 0 (Math.pow(x, 0) is 1, also
\* for NaN)
RECURSIVE PowInt(_, _)
PowInt(b, e) == IF e = 0 THEN Num(1) ELSE Mul(b, PowInt(b, e - 1))

MathPow(b, e) ==
  LET x == ToNumber(e)
  IN  IF x.k = "fin" /\ x.d = 1 /\ x.n >= 0 THEN PowInt(b, x.n) ELSE NaN

\* Number.prototype.toFixed(f): the decimal string with f fraction digits,
\* modelled by its digits: [k |-> "str", n |-> the digits as an integer
\* (round half away from zero), d |-> 10^f]; d = 0 stands for the strings
\* "NaN" (n = 0), "Infinity" (n = 1) and "-Infinity" (n = -1)
ToFixed(v, f) ==
  LET a == ToNumber(v)
      scale == PowInt(Num(10), f).n
  IN  IF a.k # "fin" THEN [k |-> "str", n |-> a.n, d |-> 0]
      ELSE [k |-> "str",
            n |-> Sgn(a.n) * ((2 * Abs(a.n) * scale + a.d) \div (2 * a.d)),
            d |-> scale]

----------------------------------------------------------------------------
(* Bounds of the model and the input sets drawn from them                   *)

MaxYears == 5

InvestmentValues == {Num(0), Num(10)}

OwnershipValues == {Num(0), Num(20), Num(100)}

PostMoneyValues == {Num(50)}

MultipleValues == {Null, Num(0), Num(1), Num(2)}

LiqTypes == {"none", "non-participating", "participating",
             "capped-participating"}

CapValues == {Null, Num(0), Num(2)}

NoDividends == [present |-> FALSE, ratePct |-> Null, compounding |-> "none"]

DividendValues ==
  {NoDividends} \cup
  [present : {TRUE}, ratePct : {Num(10)},
   compounding : {"none", "simple", "compound"}]

ExitValues == {Num(0), Num(5), Num(10), Num(50), Num(100), Num(250)}

\* whole years >= 0, the values the claims range over; the NaN that
\* parseInt gives for an emptied number field is not among them
YearValues == {Num(y) : y \in 0..MaxYears}

\* the analysis objects that setAnalysis(analysisData) can store: the JSON
\* format requested from the model
Analyses ==
  [present : {TRUE},
   investmentTerms : [present : {TRUE},
                      investment : InvestmentValues,
                      statedOwnershipPct : OwnershipValues,
                      postMoney : PostMoneyValues],
   liquidation : [present : {TRUE},
                  liqPrefMultiple : MultipleValues,
                  type : LiqTypes,
                  participationCapMultiple : CapValues,
                  dividends : DividendValues]]

\* analysis objects in which the model left out one of the two sections the
\* calculator reads
PartialAnalyses ==
  LET full == CHOOSE a \in Analyses :
                /\ a.investmentTerms.investment = Num(10)
                /\ a.investmentTerms.statedOwnershipPct = Num(20)
                /\ a.liquidation.liqPrefMultiple = Num(1)
                /\ a.liquidation.type = "participating"
                /\ a.liquidation.participationCapMultiple = Null
                /\ a.liquidation.dividends = NoDividends
  IN  {[full EXCEPT !.investmentTerms.present = FALSE],
       [full EXCEPT !.liquidation.present = FALSE]}

NullAnalysis ==
  [present |-> FALSE,
   investmentTerms |-> [present |-> FALSE, investment |-> Null,
                        statedOwnershipPct |-> Null, postMoney |-> Null],
   liquidation |-> [present |-> FALSE, liqPrefMultiple |-> Null,
                    type |-> "none", participationCapMultiple |-> Null,
                    dividends |-> NoDividends]]

----------------------------------------------------------------------------
(* calculateWaterfall                                                       *)

\* const liqPref = inv.investment * (liq.liqPrefMultiple || 1)
waterfallLiqPref(a) ==
  Mul(a.investmentTerms.investment,
      OrElse(a.liquidation.liqPrefMultiple, Num(1)))

\* const dividends = liq.dividends ?
\*   inv.investment * (liq.dividends.ratePct / 100) * years : 0
dividends(a, years) ==
  IF a.liquidation.dividends.present
  THEN Mul(Mul(a.investmentTerms.investment,
               Div(a.liquidation.dividends.ratePct, Num(100))), years)
  ELSE Num(0)

totalLiqPref(a, years) == Add(waterfallLiqPref(a), dividends(a, years))

\* nonParticipating taking the smaller of the two amounts
nonParticipating_Min(a, exitVal, years) ==
  LET proRataShare ==
        Mul(exitVal, Div(a.investmentTerms.statedOwnershipPct, Num(100)))
      investorReturn == MathMin(totalLiqPref(a, years), proRataShare)
  IN  [investorReturn |-> investorReturn,
       founderReturn |-> Sub(exitVal, investorReturn)]

\* nonParticipating in which the investor takes the preference and the
\* pro-rata share together
nonParticipating_Both(a, exitVal, years) ==
  LET proRataShare ==
        Mul(exitVal, Div(a.investmentTerms.statedOwnershipPct, Num(100)))
      investorReturn == Add(totalLiqPref(a, years), proRataShare)
  IN  [investorReturn |-> investorReturn,
       founderReturn |-> Sub(exitVal, investorReturn)]

\* nonParticipating with the investor's return clamped to the proceeds
nonParticipating_Clamped(a, exitVal, years) ==
  LET proRataShare ==
        Mul(exitVal, Div(a.investmentTerms.statedOwnershipPct, Num(100)))
      investorReturn ==
        MathMin(MathMax(totalLiqPref(a, years), proRataShare), exitVal)
  IN  [investorReturn |-> investorReturn,
       founderReturn |-> Sub(exitVal, investorReturn)]

\* nonParticipating that puts a default of 25% in place of a null ownership
nonParticipating_DefaultOwnership(a, exitVal, years) ==
  LET own == IF a.investmentTerms.statedOwnershipPct = Null
             THEN Num(25)
             ELSE a.investmentTerms.statedOwnershipPct
      proRataShare == Mul(exitVal, Div(own, Num(100)))
      investorReturn == MathMax(totalLiqPref(a, years), proRataShare)
  IN  [investorReturn |-> investorReturn,
       founderReturn |-> Sub(exitVal, investorReturn)]

\* nonParticipating whose pro-rata share forgets to divide the percentage
\* by 100
nonParticipating_PctNotDivided(a, exitVal, years) ==
  LET proRataShare == Mul(exitVal, a.investmentTerms.statedOwnershipPct)
      investorReturn == MathMax(totalLiqPref(a, years), proRataShare)
  IN  [investorReturn |-> investorReturn,
       founderReturn |-> Sub(exitVal, investorReturn)]

\* the branch for liq.type === 'non-participating'
nonParticipating(a, exitVal, years) ==
  LET proRataShare ==
        Mul(exitVal, Div(a.investmentTerms.statedOwnershipPct, Num(100)))
      investorReturn == MathMax(totalLiqPref(a, years), proRataShare)
  IN  [investorReturn |-> investorReturn,
       founderReturn |-> Sub(exitVal, investorReturn)]

\* capExists testing for null instead of truthiness, so that a cap of 0 counts
capExists_NotNull(a) == a.liquidation.participationCapMultiple.k # "null"

\* the condition of "Apply participation cap if exists"
capExists(a) == Truthy(a.liquidation.participationCapMultiple)

\* participating giving the founder the investor's share of the remainder
participating_FounderOwnShare(a, exitVal, years) ==
  LET own == a.investmentTerms.statedOwnershipPct
      remainder == Sub(exitVal, totalLiqPref(a, years))
      investorReturn1 ==
        IF Greater(remainder, Num(0))
        THEN Add(totalLiqPref(a, years), Mul(remainder, Div(own, Num(100))))
        ELSE totalLiqPref(a, years)
      founderReturn1 ==
        IF Greater(remainder, Num(0))
        THEN Mul(remainder, Div(own, Num(100)))
        ELSE Num(0)
      cap == Mul(a.investmentTerms.investment,
                 a.liquidation.participationCapMultiple)
      investorReturn2 == MathMin(investorReturn1, cap)
  IN  IF capExists(a)
      THEN [investorReturn |-> investorReturn2,
            founderReturn |-> Sub(exitVal, investorReturn2)]
      ELSE [investorReturn |-> investorReturn1,
            founderReturn |-> founderReturn1]

\* participating in which a preference above the proceeds is cut down to
\* the proceeds
participating_ClampedToExit(a, exitVal, years) ==
  LET own == a.investmentTerms.statedOwnershipPct
      remainder == Sub(exitVal, totalLiqPref(a, years))
      investorReturn1 ==
        IF Greater(remainder, Num(0))
        THEN Add(totalLiqPref(a, years), Mul(remainder, Div(own, Num(100))))
        ELSE exitVal
      founderReturn1 ==
        IF Greater(remainder, Num(0))
        THEN Mul(remainder, Div(Sub(Num(100), own), Num(100)))
        ELSE Num(0)
      cap == Mul(a.investmentTerms.investment,
                 a.liquidation.participationCapMultiple)
      investorReturn2 == MathMin(investorReturn1, cap)
  IN  IF capExists(a)
      THEN [investorReturn |-> investorReturn2,
            founderReturn |-> Sub(exitVal, investorReturn2)]
      ELSE [investorReturn |-> investorReturn1,
            founderReturn |-> founderReturn1]

\* the branch for liq.type === 'participating'
participating(a, exitVal, years) ==
  LET own == a.investmentTerms.statedOwnershipPct
      remainder == Sub(exitVal, totalLiqPref(a, years))
      investorReturn1 ==
        IF Greater(remainder, Num(0))
        THEN Add(totalLiqPref(a, years), Mul(remainder, Div(own, Num(100))))
        ELSE totalLiqPref(a, years)
      founderReturn1 ==
        IF Greater(remainder, Num(0))
        THEN Mul(remainder, Div(Sub(Num(100), own), Num(100)))
        ELSE Num(0)
      cap == Mul(a.investmentTerms.investment,
                 a.liquidation.participationCapMultiple)
      investorReturn2 == MathMin(investorReturn1, cap)
  IN  IF capExists(a)
      THEN [investorReturn |-> investorReturn2,
            founderReturn |-> Sub(exitVal, investorReturn2)]
      ELSE [investorReturn |-> investorReturn1,
            founderReturn |-> founderReturn1]

\* distribution sending capped-participating through the participating
\* branch
distribution_CappedAsParticipating(a, exitVal, years) ==
  IF a.liquidation.type = "non-participating"
  THEN nonParticipating(a, exitVal, years)
  ELSE IF a.liquidation.type \in {"participating", "capped-participating"}
  THEN participating(a, exitVal, years)
  ELSE [investorReturn |-> Num(0), founderReturn |-> Num(0)]

\* the if / else-if chain on liq.type; any other type leaves both returns
\* at their initial 0
distribution(a, exitVal, years) ==
  IF a.liquidation.type = "non-participating"
  THEN nonParticipating(a, exitVal, years)
  ELSE IF a.liquidation.type = "participating"
  THEN participating(a, exitVal, years)
  ELSE [investorReturn |-> Num(0), founderReturn |-> Num(0)]

NullWaterfall ==
  [present |-> FALSE, investorReturn |-> Null, founderReturn |-> Null,
   investorMultiple |-> Null, founderPct |-> Null]

calculateWaterfall(a, exitVal, years) ==
  IF ~a.present \/ ~a.liquidation.present \/ ~a.investmentTerms.present
  THEN NullWaterfall
  ELSE LET r == distribution(a, exitVal, years)
       IN  [present |-> TRUE,
            investorReturn |-> r.investorReturn,
            founderReturn |-> r.founderReturn,
            investorMultiple |->
              Div(r.investorReturn, a.investmentTerms.investment),
            founderPct |-> Mul(Div(r.founderReturn, exitVal), Num(100))]

----------------------------------------------------------------------------
(* calculateCostOfCapital                                                   *)

\* const investment = inv.investment || 0
investment(a) == OrElse(a.investmentTerms.investment, Num(0))

\* const liqPref = investment * (liq.liqPrefMultiple || 1)
liqPref(a) == Mul(investment(a), OrElse(a.liquidation.liqPrefMultiple, Num(1)))

\* const dividendRate = (liq.dividends?.ratePct || 0) / 100
dividendRate(a) ==
  Div(IF a.liquidation.dividends.present
      THEN OrElse(a.liquidation.dividends.ratePct, Num(0))
      ELSE Num(0),
      Num(100))

\* totalCost after steps 1 and 2
totalCost(a, years) ==
  Add(liqPref(a),
      IF /\ a.liquidation.dividends.present
         /\ a.liquidation.dividends.compounding = "compound"
      THEN Mul(investment(a),
               Sub(MathPow(Add(Num(1), dividendRate(a)), years), Num(1)))
      ELSE Mul(Mul(investment(a), dividendRate(a)), years))

\* effectiveAPR without the "- 1" that takes the principal out
effectiveAPR_NoMinusOne(a, years) ==
  Mul(Div(Div(totalCost(a, years), investment(a)), years), Num(100))

effectiveAPR(a, years) ==
  Mul(Div(Sub(Div(totalCost(a, years), investment(a)), Num(1)), years),
      Num(100))

breakEvenExit(a, years) ==
  LET own == Div(a.investmentTerms.statedOwnershipPct, Num(100))
  IN  IF a.liquidation.type = "non-participating"
      THEN MathMax(totalCost(a, years), Div(totalCost(a, years), own))
      ELSE IF a.liquidation.type = "participating"
      THEN Div(totalCost(a, years), Sub(Num(1), own))
      ELSE Num(0)

trueDilutionCost(a, years) ==
  LET equityValue ==
        Mul(a.investmentTerms.postMoney,
            Div(a.investmentTerms.statedOwnershipPct, Num(100)))
  IN  Mul(Sub(Div(Add(equityValue, totalCost(a, years)), investment(a)),
              Num(1)),
          Num(100))

NullCostOfCapital ==
  [present |-> FALSE, effectiveAPR |-> Null, breakEvenExit |-> Null,
   trueDilutionCost |-> Null, totalPreferenceAmount |-> Null]

\* the explanation string of the result is display text and is left out
calculateCostOfCapital(a, years) ==
  IF ~a.present \/ ~a.investmentTerms.present \/ ~a.liquidation.present
  THEN NullCostOfCapital
  ELSE [present |-> TRUE,
        effectiveAPR |-> ToFixed(effectiveAPR(a, years), 2),
        breakEvenExit |-> breakEvenExit(a, years),
        trueDilutionCost |-> ToFixed(trueDilutionCost(a, years), 2),
        totalPreferenceAmount |-> totalCost(a, years)]
----------------------------------------------------------------------------
(* The component: state after construction, render, and the handlers of the *)
(* exit calculator                                                          *)

\* useState of exitScenario
InitialExitScenario == [exitValuation |-> Num(100), yearsToExit |-> Num(5)]

\* useState of scenarios
InitialScenarios ==
  <<[id |-> 1, name |-> "Conservative", exitValuation |-> Num(50),
     yearsToExit |-> Num(3), active |-> FALSE],
    [id |-> 2, name |-> "Base Case", exitValuation |-> Num(100),
     yearsToExit |-> Num(5), active |-> TRUE],
    [id |-> 3, name |-> "Optimistic", exitValuation |-> Num(250),
     yearsToExit |-> Num(5), active |-> FALSE]>>

\* every render recomputes the two results from the state:
\*   const waterfall = calculateWaterfall(exitScenario.exitValuation,
\*                                        exitScenario.yearsToExit)
waterfall ==
  calculateWaterfall(analysis, exitScenario.exitValuation,
                     exitScenario.yearsToExit)

\*   const costOfCapital = calculateCostOfCapital(analysis,
\*                                                exitScenario.yearsToExit)
costOfCapital == calculateCostOfCapital(analysis, exitScenario.yearsToExit)

\* the string '0' shown when there is no result
ZeroString == [k |-> "str", n |-> 0, d |-> 1]

\* comparisonRow computed from the calculator's current exit scenario
\* instead of the row's scenario
comparisonRow_CurrentScenario(s) ==
  LET w == calculateWaterfall(analysis, exitScenario.exitValuation,
                              exitScenario.yearsToExit)
  IN  [name |-> s.name,
       current |-> s.active,
       exitValue |-> ToFixed(s.exitValuation, 0),
       founderReturn |->
         IF w.present THEN ToFixed(w.founderReturn, 1) ELSE ZeroString,
       investorMultiple |->
         IF w.present THEN ToFixed(w.investorMultiple, 1) ELSE ZeroString]

\* one row of the Scenario Comparison table (the body of scenarios.map);
\* amounts are divided by 1000000 before toFixed, which is the unit of the
\* model
comparisonRow(s) ==
  LET w == calculateWaterfall(analysis, s.exitValuation, s.yearsToExit)
  IN  [name |-> s.name,
       current |-> s.active,
       exitValue |-> ToFixed(s.exitValuation, 0),
       founderReturn |->
         IF w.present THEN ToFixed(w.founderReturn, 1) ELSE ZeroString,
       investorMultiple |->
         IF w.present THEN ToFixed(w.investorMultiple, 1) ELSE ZeroString]

\* scenarios.map(scenario => ...): one row per scenario, in array order
comparisonTable == [i \in DOMAIN scenarios |-> comparisonRow(scenarios[i])]

\* the page around the calculator once a document has been chosen and, when
\* analysis is not null, analysed: one file selected, no run in flight, no
\* error, the landing page left, the upload section collapsed by the effect
\* on [analysis], and the console holding what a successful run logs
DocumentPage ==
  /\ files = 1
  /\ loading = FALSE
  /\ error = ""
  /\ showLanding = FALSE
  /\ uploadCollapsed = analysis.present
  /\ apiKey = TRUE
  /\ console = IF analysis.present
               THEN {"message", "documentContent", "analysisResult"}
               ELSE {}
  /\ runs = <<>>

\* The calculator is studied on the analysis of one document: Init draws the
\* stored analysis (null, or any analysis object of the bounded input set)
\* and the component is mounted.
Init ==
  /\ analysis \in Analyses \cup PartialAnalyses \cup {NullAnalysis}
  /\ exitScenario = InitialExitScenario
  /\ scenarios = InitialScenarios
  /\ DocumentPage

\* SelectScenario that marks the clicked scenario without unmarking the
\* others
SelectScenario_KeepActive(i) ==
  /\ exitScenario' = [exitValuation |-> scenarios[i].exitValuation,
                      yearsToExit |-> scenarios[i].yearsToExit]
  /\ scenarios' = [j \in DOMAIN scenarios |->
                     [scenarios[j] EXCEPT !.active =
                        (@ \/ scenarios[j].id = scenarios[i].id)]]
  /\ UNCHANGED <<analysis, pageVars>>

\* onClick of a Quick Scenarios button
SelectScenario(i) ==
  /\ exitScenario' = [exitValuation |-> scenarios[i].exitValuation,
                      yearsToExit |-> scenarios[i].yearsToExit]
  /\ scenarios' = [j \in DOMAIN scenarios |->
                     [scenarios[j] EXCEPT !.active =
                        (scenarios[j].id = scenarios[i].id)]]
  /\ UNCHANGED <<analysis, pageVars>>

\* onChange of the Exit Valuation slider and number input
SetExitValuation(v) ==
  /\ exitScenario' = [exitScenario EXCEPT !.exitValuation = v]
  /\ UNCHANGED <<analysis, scenarios, pageVars>>

\* onChange of the Years to Exit slider and number input
SetYearsToExit(y) ==
  /\ exitScenario' = [exitScenario EXCEPT !.yearsToExit = y]
  /\ UNCHANGED <<analysis, scenarios, pageVars>>

Next ==
  \/ \E i \in DOMAIN scenarios : SelectScenario(i)
  \/ \E v \in ExitValues : SetExitValuation(v)
  \/ \E y \in YearValues : SetYearsToExit(y)

Spec == Init /\ [][Next]_vars

TypeOK ==
  /\ analysis \in Analyses \cup PartialAnalyses \cup {NullAnalysis}
  /\ exitScenario.exitValuation \in ExitValues
  /\ exitScenario.yearsToExit \in YearValues
  /\ waterfall.present = (analysis \in Analyses)
  /\ costOfCapital.present = waterfall.present
----------------------------------------------------------------------------
(* Properties of the distribution (calculateWaterfall)                      *)

\* shorthands for the state the calculator reads
liqType == analysis.liquidation.type

ownershipPct == analysis.investmentTerms.statedOwnershipPct

investmentAmount == analysis.investmentTerms.investment

exitValuation == exitScenario.exitValuation

yearsToExit == exitScenario.yearsToExit

\* the total preference the distribution works with
totalPreference == totalLiqPref(analysis, yearsToExit)

\* the terms and the exit of the concrete scenarios: investment 10,000,000,
\* ownership 20%, multiple 1, no dividends, exit 100,000,000
ExampleTerms(type) ==
  /\ analysis \in Analyses
  /\ liqType = type
  /\ investmentAmount = Num(10)
  /\ ownershipPct = Num(20)
  /\ analysis.liquidation.liqPrefMultiple = Num(1)
  /\ ~analysis.liquidation.dividends.present
  /\ exitValuation = Num(100)

\* C1: for liquidation type none the investor receives
\* exitValuation * ownershipPct/100 and the founder the remainder, so the two
\* returns add up to exitValuation.
C1_NoneExactSplit ==
  (/\ waterfall.present
   /\ liqType = "none"
   /\ Greater(investmentAmount, Num(0))) =>
    /\ waterfall.investorReturn =
         Mul(exitValuation, Div(ownershipPct, Num(100)))
    /\ Add(waterfall.investorReturn, waterfall.founderReturn) = exitValuation

\* C2: for type non-participating with investmentAmount > 0 the investor
\* receives the greater of totalPreference and the pro-rata share
\* exitValuation * ownershipPct/100, the founder receives exitValuation minus
\* the investor's return, and investorMultiple is investorReturn /
\* investmentAmount; the concrete scenario gives 20,000,000 / 80,000,000 / 2.0.
C2_NonParticipating ==
  LET w == waterfall
      tp == totalPreference
  IN
  (/\ liqType = "non-participating"
   /\ w.present
   /\ Greater(investmentAmount, Num(0))) =>
    LET proRata == Mul(exitValuation, Div(ownershipPct, Num(100)))
    IN  /\ LessEq(tp, w.investorReturn)
        /\ LessEq(proRata, w.investorReturn)
        /\ w.investorReturn \in {tp, proRata}
        /\ Add(w.investorReturn, w.founderReturn)
             = exitValuation
        /\ Mul(w.investorMultiple, investmentAmount)
             = w.investorReturn
        /\ (ExampleTerms("non-participating") =>
              /\ w.investorReturn = Num(20)
              /\ w.founderReturn = Num(80)
              /\ w.investorMultiple = Num(2))

C2_Witness ==
  /\ ExampleTerms("non-participating")
  /\ waterfall.present
  /\ waterfall.investorReturn = Num(20)
  /\ waterfall.investorMultiple = Num(2)

\* C3: for type participating without a cap and exitValuation above
\* totalPreference, the investor receives totalPreference plus
\* ownershipPct/100 of the rest and the founder (100 - ownershipPct)/100 of
\* the rest; the concrete scenario gives 28,000,000 and 72,000,000.
C3_Participating ==
  LET w == waterfall
      tp == totalPreference
  IN
  (/\ liqType = "participating"
   /\ w.present
   /\ analysis.liquidation.participationCapMultiple = Null
   /\ Greater(exitValuation, tp)) =>
    LET rest == Sub(exitValuation, tp)
    IN  /\ Mul(Sub(w.investorReturn, tp), Num(100))
             = Mul(ownershipPct, rest)
        /\ Mul(w.founderReturn, Num(100))
             = Mul(Sub(Num(100), ownershipPct), rest)
        /\ (ExampleTerms("participating") =>
              /\ w.investorReturn = Num(28)
              /\ w.founderReturn = Num(72))

C3_Witness ==
  /\ ExampleTerms("participating")
  /\ analysis.liquidation.participationCapMultiple = Null
  /\ waterfall.present
  /\ waterfall.investorReturn = Num(28)
  /\ waterfall.founderReturn = Num(72)

participationCapMultiple == analysis.liquidation.participationCapMultiple

\* the analysis with the participation cap taken out (null)
WithoutCap(a) == [a EXCEPT !.liquidation.participationCapMultiple = Null]

\* C4: for type capped-participating the distribution is that of
\* participating with investorReturn clamped to investmentAmount *
\* participationCapMultiple, and founderReturn = exitValuation -
\* investorReturn, so the two returns add up to exitValuation.
C4_CappedParticipating ==
  (/\ waterfall.present
   /\ liqType = "capped-participating"
   /\ Greater(investmentAmount, Num(0))) =>
    LET uncapped == participating(WithoutCap(analysis), exitValuation,
                                  yearsToExit)
    IN  /\ waterfall.investorReturn =
             MathMin(uncapped.investorReturn,
                     Mul(investmentAmount, participationCapMultiple))
        /\ Add(waterfall.investorReturn, waterfall.founderReturn)
             = exitValuation

\* C5: for type capped-participating, investorReturn never exceeds
\* investmentAmount * participationCapMultiple.
C5_CapBound ==
  LET w == waterfall
  IN
  (liqType = "capped-participating" /\ w.present) =>
    LessEq(w.investorReturn,
           Mul(investmentAmount, participationCapMultiple))

C5_Witness ==
  /\ waterfall.present
  /\ liqType = "capped-participating"
  /\ investmentAmount = Num(10)
  /\ participationCapMultiple = Num(2)
  /\ ownershipPct = Num(20)
  /\ exitValuation = Num(250)
  /\ LessEq(waterfall.investorReturn, Num(20))

\* the distribution of the analysis without its cap, at the current exit
waterfallWithoutCap ==
  calculateWaterfall(WithoutCap(analysis), exitValuation, yearsToExit)

\* C6 as stated: for type participating the result is the same whether
\* participationCapMultiple is absent or has any value >= 0.
C6_CapIgnoredWhenParticipating ==
  (waterfall.present /\ liqType = "participating") =>
    /\ waterfall.investorReturn = waterfallWithoutCap.investorReturn
    /\ waterfall.founderReturn = waterfallWithoutCap.founderReturn

\* C6 amended: for type participating the result is the same whether
\* participationCapMultiple is absent or 0; a positive cap is applied to
\* type participating as well: investorReturn is clamped to
\* investmentAmount * participationCapMultiple and founderReturn is
\* exitValuation - investorReturn.
C6_ZeroCapIgnoredWhenParticipating ==
  LET w == waterfall
      wnc == waterfallWithoutCap
  IN
  (liqType = "participating" /\ w.present) =>
    IF participationCapMultiple \in {Null, Num(0)}
    THEN /\ w.investorReturn = wnc.investorReturn
         /\ w.founderReturn = wnc.founderReturn
    ELSE /\ w.investorReturn =
              MathMin(wnc.investorReturn,
                      Mul(investmentAmount, participationCapMultiple))
         /\ Add(w.investorReturn, w.founderReturn)
              = exitValuation

C6_Witness ==
  /\ ExampleTerms("participating")
  /\ participationCapMultiple = Num(0)
  /\ waterfall.present
  /\ waterfall.investorReturn = Num(28)
  /\ waterfall.founderReturn = Num(72)

dividendTerms == analysis.liquidation.dividends

\* C7: the accrued dividends of the distribution are 0 whenever the
\* dividends record is absent or its compounding is none, whatever the rate
\* and the years, so that totalPreference is the liquidation preference.
C7_NoDividendsWhenNone ==
  (/\ waterfall.present
   /\ (~dividendTerms.present \/ dividendTerms.compounding = "none")) =>
    /\ dividends(analysis, yearsToExit) = Num(0)
    /\ totalPreference = waterfallLiqPref(analysis)

\* C8: the accrued dividends of the distribution are investmentAmount *
\* ((1 + ratePct/100)^yearsToExit - 1) for compounding compound and
\* investmentAmount * ratePct/100 * yearsToExit for compounding simple.
C8_DividendFormulas ==
  (waterfall.present /\ dividendTerms.present) =>
    LET rate == Div(dividendTerms.ratePct, Num(100))
    IN  /\ dividendTerms.compounding = "compound" =>
              dividends(analysis, yearsToExit) =
                Mul(investmentAmount,
                    Sub(MathPow(Add(Num(1), rate), yearsToExit), Num(1)))
        /\ dividendTerms.compounding = "simple" =>
              dividends(analysis, yearsToExit) =
                Mul(Mul(investmentAmount, rate), yearsToExit)

\* C9: for the same terms and years, the total preference of the
\* distribution equals the totalPreferenceAmount of the cost-of-capital
\* calculation, for every compounding mode.
C9_SameTotalPreference ==
  (waterfall.present /\ costOfCapital.present) =>
    totalPreference = costOfCapital.totalPreferenceAmount

\* C10: the liquidation preference is investmentAmount * multiple for every
\* supplied multiple >= 0, 0 included; the default 1 is used only when the
\* multiple is absent.
C10_LiqPrefMultiple ==
  waterfall.present =>
    LET multiple == IF analysis.liquidation.liqPrefMultiple = Null
                    THEN Num(1)
                    ELSE analysis.liquidation.liqPrefMultiple
    IN  /\ waterfallLiqPref(analysis) = Mul(investmentAmount, multiple)
        /\ liqPref(analysis) = Mul(investmentAmount, multiple)

----------------------------------------------------------------------------
(* Properties that relate the cost-of-capital calculation to the            *)
(* distribution, and properties of the single branches                      *)

\* founderReturn < 0 and founderReturn >= 0 on a result
Negative(v) == Less(v, Num(0))

NonNegative(v) == LessEq(Num(0), v)

\* the distribution of the current terms and years at another exit value
waterfallAt(exitVal) == calculateWaterfall(analysis, exitVal, yearsToExit)

\* C11: for types non-participating and participating, breakEvenExit is the
\* minimum exit valuation at which the founder's return is non-negative:
\* founderReturn >= 0 at exitValuation = breakEvenExit and founderReturn < 0
\* at every smaller exitValuation >= 0.
C11_BreakEvenIsMinimum ==
  (/\ waterfall.present
   /\ costOfCapital.present
   /\ liqType \in {"non-participating", "participating"}
   /\ Greater(investmentAmount, Num(0))
   /\ costOfCapital.breakEvenExit.k = "fin") =>
    /\ NonNegative(waterfallAt(costOfCapital.breakEvenExit).founderReturn)
    /\ (Less(exitValuation, costOfCapital.breakEvenExit) =>
          Negative(waterfall.founderReturn))

\* C12: for type non-participating and ownershipPct in [0, 100],
\* investorReturn >= totalPreference at every exit, and founderReturn >= 0
\* whenever exitValuation >= totalPreference.
C12_NonParticipatingBounds ==
  LET w == waterfall
      tp == totalPreference
  IN
  (/\ liqType = "non-participating"
   /\ w.present
   /\ LessEq(Num(0), ownershipPct)
   /\ LessEq(ownershipPct, Num(100))) =>
    /\ LessEq(tp, w.investorReturn)
    /\ (LessEq(tp, exitValuation) =>
          NonNegative(w.founderReturn))

\* the boundary: full ownership and an exit exactly at the preference
C12_Witness ==
  /\ waterfall.present
  /\ liqType = "non-participating"
  /\ ownershipPct = Num(100)
  /\ investmentAmount = Num(10)
  /\ totalPreference = Num(10)
  /\ exitValuation = Num(10)
  /\ waterfall.investorReturn = Num(10)
  /\ waterfall.founderReturn = Num(0)

\* C13: for type non-participating with exitValuation < totalPreference the
\* investor's return is totalPreference, not clamped to the proceeds: it
\* exceeds exitValuation and founderReturn = exitValuation - totalPreference
\* is negative; exit 5,000,000 with totalPreference 10,000,000 gives
\* investorReturn 10,000,000.
C13_NotClamped ==
  LET w == waterfall
      tp == totalPreference
  IN
  (/\ liqType = "non-participating"
   /\ w.present
   /\ Less(exitValuation, tp)) =>
    /\ w.investorReturn = tp
    /\ Greater(w.investorReturn, exitValuation)
    /\ w.founderReturn = Sub(exitValuation, tp)
    /\ Negative(w.founderReturn)
    /\ ((exitValuation = Num(5) /\ tp = Num(10)) =>
          w.investorReturn = Num(10))

C13_Witness ==
  /\ waterfall.present
  /\ liqType = "non-participating"
  /\ investmentAmount = Num(10)
  /\ ownershipPct = Num(20)
  /\ exitValuation = Num(5)
  /\ totalPreference = Num(10)
  /\ waterfall.investorReturn = Num(10)
  /\ waterfall.founderReturn = Num(-5)

\* C14: for type participating without a cap, investorReturn + founderReturn
\* = exitValuation whenever exitValuation >= totalPreference, the boundary
\* exitValuation = totalPreference included.
C14_ParticipatingSplitsExit ==
  LET w == waterfall
      tp == totalPreference
  IN
  (/\ liqType = "participating"
   /\ w.present
   /\ participationCapMultiple = Null
   /\ LessEq(tp, exitValuation)) =>
    Add(w.investorReturn, w.founderReturn) = exitValuation

\* the boundary case
C14_Witness ==
  /\ waterfall.present
  /\ liqType = "participating"
  /\ participationCapMultiple = Null
  /\ investmentAmount = Num(10)
  /\ ownershipPct = Num(20)
  /\ totalPreference = Num(10)
  /\ exitValuation = Num(10)
  /\ waterfall.investorReturn = Num(10)
  /\ waterfall.founderReturn = Num(0)

\* C15 as stated: for type participating, when exitValuation -
\* totalPreference <= 0 the founder receives 0 and the investor exactly
\* totalPreference.
C15_LowExitParticipating ==
  (/\ waterfall.present
   /\ liqType = "participating"
   /\ LessEq(Sub(exitValuation, totalPreference), Num(0))) =>
    /\ waterfall.founderReturn = Num(0)
    /\ waterfall.investorReturn = totalPreference

\* C15 amended: the same for type participating with participationCapMultiple
\* absent or 0; with a positive cap the investor receives min(totalPreference,
\* investmentAmount * participationCapMultiple) and the founder exitValuation
\* minus that amount.
C15_LowExitParticipatingByCap ==
  LET w == waterfall
      tp == totalPreference
  IN
  (/\ liqType = "participating"
   /\ w.present
   /\ LessEq(Sub(exitValuation, tp), Num(0))) =>
    IF participationCapMultiple \in {Null, Num(0)}
    THEN /\ w.founderReturn = Num(0)
         /\ w.investorReturn = tp
    ELSE /\ w.investorReturn =
              MathMin(tp,
                      Mul(investmentAmount, participationCapMultiple))
         /\ w.founderReturn =
              Sub(exitValuation, w.investorReturn)

\* investor's preference above the proceeds, no cap
C15_Witness ==
  /\ waterfall.present
  /\ liqType = "participating"
  /\ participationCapMultiple = Null
  /\ investmentAmount = Num(10)
  /\ totalPreference = Num(10)
  /\ exitValuation = Num(5)
  /\ waterfall.investorReturn = Num(10)
  /\ waterfall.founderReturn = Num(0)

\* C16: for types none and non-participating, with the terms and the years
\* held fixed, founderReturn never decreases when exitValuation grows: for
\* exit values e1 <= e2, founderReturn(e1) <= founderReturn(e2).
C16_FounderMonotone ==
  LET w == waterfall
  IN
  (liqType \in {"none", "non-participating"} /\ w.present) =>
    \A e \in ExitValues :
      LessEq(exitValuation, e) =>
        LessEq(w.founderReturn, waterfallAt(e).founderReturn)

\* a pair of exits on the two sides of the preference
C16_Witness ==
  /\ waterfall.present
  /\ liqType = "non-participating"
  /\ ownershipPct = Num(20)
  /\ totalPreference = Num(10)
  /\ exitValuation = Num(5)
  /\ waterfall.founderReturn = Num(-5)
  /\ waterfallAt(Num(100)).founderReturn = Num(80)

\* the number a toFixed string reads as
StrValue(s) ==
  IF s.d # 0 THEN Fin(s.n, s.d)
  ELSE IF s.n = 0 THEN NaN ELSE Infinity(s.n)

\* ((totalPreference / investmentAmount) - 1) / yearsToExit * 100 on the
\* total preference of the cost-of-capital calculation
APRFormula ==
  Mul(Div(Sub(Div(totalCost(analysis, yearsToExit), investmentAmount),
              Num(1)),
          yearsToExit),
      Num(100))

----------------------------------------------------------------------------
(* Absent inputs: the analysis objects in which the investment or the       *)
(* ownership is null, the value the JSON format gives an absent number      *)

MissingAnalyses ==
  [present : {TRUE},
   investmentTerms : [present : {TRUE},
                      investment : {Null, Num(0), Num(10)},
                      statedOwnershipPct : {Null, Num(0), Num(20)},
                      postMoney : PostMoneyValues],
   liquidation : [present : {TRUE},
                  liqPrefMultiple : {Null, Num(1)},
                  type : LiqTypes,
                  participationCapMultiple : {Null, Num(2)},
                  dividends : {NoDividends,
                               [present |-> TRUE, ratePct |-> Num(10),
                                compounding |-> "simple"]}]]

InitMissing ==
  /\ analysis \in MissingAnalyses
  /\ exitScenario = InitialExitScenario
  /\ scenarios = InitialScenarios
  /\ DocumentPage

SpecMissing == InitMissing /\ [][Next]_vars

\* a finite number, or a toFixed string of one
IsFinite(v) == IF v.k = "str" THEN v.d # 0 ELSE v.k = "fin"

\* a result with a field that is not a finite number
NonFinite(result, fields) == \E f \in fields : ~IsFinite(result[f])

WaterfallFields ==
  {"investorReturn", "founderReturn", "investorMultiple", "founderPct"}

CostOfCapitalFields ==
  {"effectiveAPR", "breakEvenExit", "trueDilutionCost",
   "totalPreferenceAmount"}

\* the analysis with 0 written in place of a null investment or ownership
AsZero(a) ==
  [a EXCEPT !.investmentTerms.investment = ToNumber(@),
            !.investmentTerms.statedOwnershipPct = ToNumber(@)]

----------------------------------------------------------------------------
(* The scenario set                                                         *)

\* the analyses the comparison table is studied on: the concrete terms with
\* each preference type, with and without a cap and dividends, and no
\* analysis at all
ComparisonAnalyses ==
  [present : {TRUE},
   investmentTerms : [present : {TRUE},
                      investment : {Num(10)},
                      statedOwnershipPct : {Num(20)},
                      postMoney : PostMoneyValues],
   liquidation : [present : {TRUE},
                  liqPrefMultiple : {Num(1), Num(2)},
                  type : LiqTypes,
                  participationCapMultiple : {Null, Num(2)},
                  dividends : {NoDividends,
                               [present |-> TRUE, ratePct |-> Num(10),
                                compounding |-> "simple"]}]]

InitComparison ==
  /\ analysis \in ComparisonAnalyses \cup {NullAnalysis}
  /\ exitScenario = InitialExitScenario
  /\ scenarios = InitialScenarios
  /\ DocumentPage

SpecComparison == InitComparison /\ [][Next]_vars

\* C19: the scenario comparison has exactly one result per scenario, each
\* computed by the distribution on that scenario's exitValuation and
\* yearsToExit, in the order of the scenarios in the list.
C19_OneRowPerScenario ==
  LET table == comparisonTable
  IN  /\ Len(table) = Len(scenarios)
      /\ \A i \in DOMAIN scenarios :
           LET w == calculateWaterfall(analysis, scenarios[i].exitValuation,
                                       scenarios[i].yearsToExit)
           IN  /\ table[i].name = scenarios[i].name
               /\ table[i].exitValue.n = scenarios[i].exitValuation.n
               /\ w.present =>
                    /\ table[i].founderReturn = ToFixed(w.founderReturn, 1)
                    /\ table[i].investorMultiple
                         = ToFixed(w.investorMultiple, 1)

\* the three rows of the concrete non-participating terms while the
\* calculator itself stands at another exit
C19_Witness ==
  /\ analysis \in ComparisonAnalyses
  /\ liqType = "non-participating"
  /\ investmentAmount = Num(10)
  /\ ownershipPct = Num(20)
  /\ totalLiqPref(analysis, Num(3)) = Num(10)
  /\ totalLiqPref(analysis, Num(5)) = Num(10)
  /\ exitValuation = Num(5)
  /\ comparisonTable[1].name = "Conservative"
  /\ comparisonTable[1].founderReturn = [k |-> "str", n |-> 400, d |-> 10]
  /\ comparisonTable[2].name = "Base Case"
  /\ comparisonTable[2].founderReturn = [k |-> "str", n |-> 800, d |-> 10]
  /\ comparisonTable[3].name = "Optimistic"
  /\ comparisonTable[3].founderReturn = [k |-> "str", n |-> 2000, d |-> 10]

\* C20: in every reachable state of the scenario set, the initial one and
\* those after any quick-scenario clicks and manual edits of the exit
\* valuation and the years, exactly one scenario has active = true.
C20_ExactlyOneActive ==
  Cardinality({i \in DOMAIN scenarios : scenarios[i].active}) = 1

\* after a click on Optimistic and a manual edit of the exit valuation
C20_Witness ==
  /\ scenarios[3].active
  /\ ~scenarios[1].active
  /\ ~scenarios[2].active
  /\ exitValuation = Num(0)
  /\ yearsToExit = Num(5)

\* C28: whenever a scenario is marked active (shown as "(current)" in the
\* comparison table), the calculator's exitScenario has that scenario's
\* exitValuation and yearsToExit, after any sequence of quick-scenario clicks
\* and manual edits.
C28_ActiveIsCurrent ==
  \A i \in DOMAIN scenarios :
    comparisonTable[i].current =>
      /\ exitScenario.exitValuation = scenarios[i].exitValuation
      /\ exitScenario.yearsToExit = scenarios[i].yearsToExit
----------------------------------------------------------------------------
(* The analysis run: error messages, retryWithBackoff and analyzeTermSheet  *)

\* default parameters of retryWithBackoff
maxRetries == 3

initialDelay == 1000

\* bounds of the run model: files a user selects at once, and
\* analyzeTermSheet calls that can be suspended at the same time
MaxFiles == 2

MaxInFlight == 2

\* the messages of the errors thrown inside analyzeTermSheet
KeyNotConfigured == "OpenAI API key not configured. Please contact support."

QuotaExceeded ==
  "OpenAI API quota exceeded. Please check your billing details or add credits to your account."

RateLimitExceeded ==
  "OpenAI API rate limit exceeded. Please wait a moment and try again."

InvalidKey ==
  "Invalid OpenAI API key. Please check your API key and try again."

InvalidRequest ==
  "Invalid request. Please check your document and try again."

ServiceUnavailable ==
  "OpenAI service is temporarily unavailable. Please try again later."

\* any other status: `Analysis failed: ${response.statusText}`
AnalysisFailed == "Analysis failed: Internal Server Error"

\* the TypeError of a fetch that cannot reach the server
FailedToFetch == "Failed to fetch"

ParseFailed == "Failed to parse analysis results"

\* the messages written by setError outside the catch block
NoFilesMessage == "Please upload at least one file"

FailedToRead == "Failed to read term-sheet.pdf: Invalid PDF structure"

\* the user-friendly messages of the catch block (without their leading
\* pictograph)
RateLimitUserMessage ==
  "API rate limit reached. The system will automatically retry. If the issue persists, please wait a few minutes and try again."

ApiKeyUserMessage ==
  "API key issue detected. Please ensure your OpenAI API key is valid and has sufficient credits."

ConnectUserMessage ==
  "Unable to connect to OpenAI API. This usually means the API key is invalid, expired, or doesn't have proper permissions. Please check your API key."

NetworkUserMessage ==
  "Network error. Please check your internet connection and try again."

TimeoutUserMessage ==
  "Request timed out. Your document might be too large or complex. Try uploading a smaller file."

\* the errors one call of fn (the fetch and the reading of its response) can
\* throw
ApiErrors ==
  {RateLimitExceeded, QuotaExceeded, InvalidKey, InvalidRequest,
   ServiceUnavailable, AnalysisFailed, FailedToFetch}

\* String.prototype.includes on the error messages above: the pairs
\* <<message, keyword>> for which message.includes(keyword) is true
Contains ==
  {<<KeyNotConfigured, "API key">>,
   <<QuotaExceeded, "quota">>,
   <<RateLimitExceeded, "rate limit">>,
   <<InvalidKey, "API key">>,
   <<FailedToFetch, "Failed to fetch">>,
   <<FailedToFetch, "fetch">>}

includes(message, keyword) == <<message, keyword>> \in Contains

\* the retry test that retries after every error
shouldRetry_Always(message) == TRUE

\* the condition of the if in the catch of retryWithBackoff
shouldRetry(message) ==
  includes(message, "rate limit") /\ ~includes(message, "quota")

\* the loop condition that allows one attempt more
loopContinues_Inclusive(i) == i <= maxRetries

\* the condition of the for loop of retryWithBackoff
loopContinues(i) == i < maxRetries

\* const delay = initialDelay * Math.pow(2, i)
delay(i) == initialDelay * 2^i

\* the message mapping of the catch block of analyzeTermSheet
userMessage(message) ==
  IF includes(message, "rate limit") THEN RateLimitUserMessage
  ELSE IF includes(message, "API key") THEN ApiKeyUserMessage
  ELSE IF includes(message, "Failed to fetch") \/ includes(message, "CORS")
  THEN ConnectUserMessage
  ELSE IF includes(message, "network") \/ includes(message, "fetch")
  THEN NetworkUserMessage
  ELSE IF includes(message, "timeout") THEN TimeoutUserMessage
  ELSE message

\* the analysis objects the API answers with in this model: the terms of the
\* concrete scenarios with either preference type
TermsOf(type) ==
  [present |-> TRUE,
   investmentTerms |-> [present |-> TRUE, investment |-> Num(10),
                        statedOwnershipPct |-> Num(20),
                        postMoney |-> Num(50)],
   liquidation |-> [present |-> TRUE, liqPrefMultiple |-> Num(1),
                    type |-> type, participationCapMultiple |-> Null,
                    dividends |-> NoDividends]]

ResultAnalyses == {TermsOf("non-participating"), TermsOf("participating")}

\* the settled states of a promise: fulfilled with a response whose content
\* is JSON text ("json", with the object it parses to) or text without any
\* JSON object ("text"); rejected with an Error; or still pending
Resolved(kind, data) ==
  [ok |-> TRUE, message |-> "", kind |-> kind, data |-> data]

Rejected(message) ==
  [ok |-> FALSE, message |-> message, kind |-> "none", data |-> NullAnalysis]

Pending == [ok |-> FALSE, message |-> "", kind |-> "pending",
            data |-> NullAnalysis]

\* what one call of fn can settle with
ApiResponses ==
  {Resolved("json", a) : a \in ResultAnalyses}
    \cup {Resolved("text", NullAnalysis)}

FetchOutcomes == ApiResponses \cup {Rejected(m) : m \in ApiErrors}

\* One analyzeTermSheet call suspended at an await.  pc is the await it is
\* suspended at: "reading" (extractTextFromPDF / file.text()), "fetching"
\* (fn: the fetch and the reading of its response), "backoff" (the
\* setTimeout promise), "settled" (retryWithBackoff has settled and the
\* continuation of analyzeTermSheet is queued).  files is the length of the
\* files array the call closed over, read the number of files read, i and
\* lastError the locals of retryWithBackoff ("" is undefined), result the
\* state of the retryWithBackoff promise.  attempts (the outcomes of the
\* calls of fn so far), waits (the delays of the timers set so far) and
\* reset (Home or New Analysis was clicked since the call started) record
\* the history of the call.
newRun(n) ==
  [pc |-> "reading", files |-> n, read |-> 0, i |-> 0, lastError |-> "",
   attempts |-> <<>>, waits |-> <<>>, result |-> Pending, reset |-> FALSE]

\* the head of the for loop of retryWithBackoff: the next call of fn, or
\* throw lastError after the loop
attempt(run) ==
  IF loopContinues(run.i)
  THEN [run EXCEPT !.pc = "fetching"]
  ELSE [run EXCEPT !.pc = "settled", !.result = Rejected(run.lastError)]

\* the run that has ended leaves the calls in flight
RemoveRun(r) == SubSeq(runs, 1, r - 1) \o SubSeq(runs, r + 1, Len(runs))

\* console.log / console.error of the given kinds of data
Log(kinds) == console' = console \cup kinds

\* the catch block that leaves loading set
catchError_KeepLoading(message) ==
  /\ error' = userMessage(message)
  /\ UNCHANGED <<loading, analysis, uploadCollapsed>>

\* the catch block that also drops the stored analysis
catchError_ClearAnalysis(message) ==
  /\ error' = userMessage(message)
  /\ loading' = FALSE
  /\ analysis' = NullAnalysis
  /\ UNCHANGED uploadCollapsed

\* the catch block of analyzeTermSheet
catchError(message) ==
  /\ error' = userMessage(message)
  /\ loading' = FALSE
  /\ UNCHANGED <<analysis, uploadCollapsed>>

\* what the page shows: the landing page, and the expanded upload section
\* with the file input and the Analyze button
LandingShown == showLanding /\ ~analysis.present

UploadVisible == ~LandingShown /\ ~(uploadCollapsed /\ analysis.present)

\* the Analyze button that stays enabled during a run
analyzeDisabled_WhileIdle == files = 0

\* disabled={files.length === 0 || loading}
analyzeDisabled == files = 0 \/ loading

\* analyzeTermSheet up to its first await
analyzeTermSheet ==
  /\ Log({"message"})
  /\ IF files = 0
     THEN /\ error' = NoFilesMessage
          /\ UNCHANGED <<loading, analysis, uploadCollapsed, runs>>
     ELSE IF ~apiKey
     THEN /\ catchError(KeyNotConfigured)
          /\ UNCHANGED runs
     ELSE /\ loading' = TRUE
          /\ error' = ""
          /\ runs' = Append(runs, newRun(files))
          /\ UNCHANGED <<analysis, uploadCollapsed>>

\* onClick of the Analyze button
ClickAnalyze ==
  /\ UploadVisible
  /\ ~analyzeDisabled
  /\ Len(runs) < MaxInFlight
  /\ analyzeTermSheet
  /\ UNCHANGED <<files, showLanding, apiKey, exitScenario, scenarios>>

\* the await of the file text settles: the next file, the truncation and
\* the logging of the document followed by the first call of fn, or the
\* inner catch
ReadSettles(r, ok) ==
  /\ runs[r].pc = "reading"
  /\ IF ~ok
     THEN /\ Log({"message"})
          /\ error' = FailedToRead
          /\ loading' = FALSE
          /\ runs' = RemoveRun(r)
     ELSE IF runs[r].read + 1 < runs[r].files
     THEN /\ runs' = [runs EXCEPT ![r].read = @ + 1]
          /\ UNCHANGED <<console, error, loading>>
     ELSE /\ Log({"message", "documentContent"})
          /\ runs' = [runs EXCEPT ![r] = attempt([@ EXCEPT !.read = @ + 1])]
          /\ UNCHANGED <<error, loading>>
  /\ UNCHANGED <<analysis, uploadCollapsed, files, showLanding, apiKey,
                 exitScenario, scenarios>>

\* a call of fn settles: return its value, or the catch of retryWithBackoff
FetchSettles(r, outcome) ==
  /\ runs[r].pc = "fetching"
  /\ LET run == [runs[r] EXCEPT !.attempts = Append(@, outcome)]
     IN  IF outcome.ok
         THEN /\ runs' = [runs EXCEPT ![r] =
                            [run EXCEPT !.pc = "settled",
                                        !.result = outcome]]
              /\ UNCHANGED console
         ELSE /\ Log({"message"})
              /\ IF shouldRetry(outcome.message)
                 THEN runs' = [runs EXCEPT ![r] =
                                 [run EXCEPT !.lastError = outcome.message,
                                             !.waits = Append(@, delay(run.i)),
                                             !.pc = "backoff"]]
                 ELSE runs' = [runs EXCEPT ![r] =
                                 [run EXCEPT !.lastError = outcome.message,
                                             !.pc = "settled",
                                             !.result =
                                               Rejected(outcome.message)]]
  /\ UNCHANGED <<analysis, uploadCollapsed, files, showLanding, apiKey,
                 exitScenario, scenarios, error, loading>>

\* the timer of the backoff fires: i++ and the head of the loop
TimerFires(r) ==
  /\ runs[r].pc = "backoff"
  /\ runs' = [runs EXCEPT ![r] = attempt([@ EXCEPT !.i = @ + 1])]
  /\ Log({"message"})
  /\ UNCHANGED <<analysis, uploadCollapsed, files, showLanding, apiKey,
                 exitScenario, scenarios, error, loading>>

\* analyzeTermSheet after await retryWithBackoff: log and parse the
\* response and store the analysis (the effect on [analysis] collapses the
\* upload section), or the catch block
Continue(r) ==
  /\ runs[r].pc = "settled"
  /\ LET result == runs[r].result
     IN  IF result.ok
         THEN /\ Log({"message", "analysisResult"})
              /\ IF result.kind = "json"
                 THEN /\ analysis' = result.data
                      /\ uploadCollapsed' =
                           (result.data.present \/ uploadCollapsed)
                      /\ loading' = FALSE
                      /\ UNCHANGED error
                 ELSE catchError(ParseFailed)
         ELSE /\ Log({"message"})
              /\ catchError(result.message)
  /\ runs' = RemoveRun(r)
  /\ UNCHANGED <<files, showLanding, apiKey, exitScenario, scenarios>>

\* onChange of the file input
handleFileUpload(n) ==
  /\ UploadVisible
  /\ files' = n
  /\ error' = ""
  /\ UNCHANGED <<analysis, exitScenario, scenarios, loading, showLanding,
                 uploadCollapsed, apiKey, console, runs>>

\* onClick of the buttons of the landing page
EnterApp ==
  /\ LandingShown
  /\ showLanding' = FALSE
  /\ UNCHANGED <<analysis, exitScenario, scenarios, files, loading, error,
                 uploadCollapsed, apiKey, console, runs>>

\* the calls in flight when Home or New Analysis is clicked
MarkReset == [r \in DOMAIN runs |-> [runs[r] EXCEPT !.reset = TRUE]]

\* onClick of the logo and of the Home button
GoHome ==
  /\ ~LandingShown
  /\ showLanding' = TRUE
  /\ analysis' = NullAnalysis
  /\ files' = 0
  /\ uploadCollapsed' = FALSE
  /\ runs' = MarkReset
  /\ UNCHANGED <<exitScenario, scenarios, loading, error, apiKey, console>>

\* onClick of the New Analysis buttons
NewAnalysis ==
  /\ ~LandingShown
  /\ analysis.present
  /\ files' = 0
  /\ analysis' = NullAnalysis
  /\ uploadCollapsed' = FALSE
  /\ error' = ""
  /\ runs' = MarkReset
  /\ UNCHANGED <<exitScenario, scenarios, loading, showLanding, apiKey,
                 console>>

\* onClick of the chevrons of the upload section
ToggleUpload ==
  /\ ~LandingShown
  /\ analysis.present
  /\ uploadCollapsed' = ~uploadCollapsed
  /\ UNCHANGED <<analysis, exitScenario, scenarios, files, loading, error,
                 showLanding, apiKey, console, runs>>

\* the component is mounted, with or without a configured API key
InitRun ==
  /\ analysis = NullAnalysis
  /\ exitScenario = InitialExitScenario
  /\ scenarios = InitialScenarios
  /\ files = 0
  /\ loading = FALSE
  /\ error = ""
  /\ showLanding = TRUE
  /\ uploadCollapsed = FALSE
  /\ apiKey \in BOOLEAN
  /\ console = {}
  /\ runs = <<>>

NextRun ==
  \/ EnterApp
  \/ \E n \in 0..MaxFiles : handleFileUpload(n)
  \/ ClickAnalyze
  \/ \E r \in DOMAIN runs : \E ok \in BOOLEAN : ReadSettles(r, ok)
  \/ \E r \in DOMAIN runs : \E outcome \in FetchOutcomes :
       FetchSettles(r, outcome)
  \/ \E r \in DOMAIN runs : TimerFires(r)
  \/ \E r \in DOMAIN runs : Continue(r)
  \/ GoHome
  \/ NewAnalysis
  \/ ToggleUpload

SpecRun == InitRun /\ [][NextRun]_vars

\* every awaited external call (file read, fetch, backoff timer) eventually
\* settles, and a queued continuation runs
RunFairness ==
  \A r \in 1..MaxInFlight :
    /\ WF_vars(r \in DOMAIN runs /\ \E ok \in BOOLEAN : ReadSettles(r, ok))
    /\ WF_vars(r \in DOMAIN runs
                 /\ \E outcome \in FetchOutcomes : FetchSettles(r, outcome))
    /\ WF_vars(r \in DOMAIN runs /\ TimerFires(r))
    /\ WF_vars(r \in DOMAIN runs /\ Continue(r))

SpecRunFair == SpecRun /\ RunFairness

TypeOKRun ==
  /\ analysis \in ResultAnalyses \cup {NullAnalysis}
  /\ files \in 0..MaxFiles
  /\ loading \in BOOLEAN
  /\ showLanding \in BOOLEAN
  /\ uploadCollapsed \in BOOLEAN
  /\ console \subseteq {"message", "documentContent", "analysisResult"}
  /\ Len(runs) <= MaxInFlight
  /\ \A r \in DOMAIN runs :
       /\ runs[r].pc \in {"reading", "fetching", "backoff", "settled"}
       /\ runs[r].files \in 1..MaxFiles
       /\ runs[r].read <= runs[r].files
----------------------------------------------------------------------------
(* Properties of the analysis run                                           *)

\* C21: during any run of analyzeTermSheet no part of the uploaded
\* document's content and no part of the analysis result is written to the
\* console (the code never writes to local or session storage).
C21_NothingLogged ==
  console \cap {"documentContent", "analysisResult"} = {}

\* the rate-limit error of the claims: the 429 answer that is not the
\* insufficient-quota one
IsRateLimitError(outcome) ==
  ~outcome.ok /\ outcome.message = RateLimitExceeded

\* the number of calls of fn a run has made
Calls(run) == Len(run.attempts) + (IF run.pc = "fetching" THEN 1 ELSE 0)

\* C22: retryWithBackoff retries only on rate-limit errors: an attempt that
\* fails with any other error (429 insufficient quota, 401, 400, 503, a
\* network error) is the last one, its error is the one rethrown, and no
\* wait and no call of fn follows it.
C22_OnlyRateLimitRetried ==
  \A r \in DOMAIN runs :
    \A k \in DOMAIN runs[r].attempts :
      LET outcome == runs[r].attempts[k]
      IN  (~outcome.ok /\ ~IsRateLimitError(outcome)) =>
            /\ k = Len(runs[r].attempts)
            /\ runs[r].pc = "settled"
            /\ runs[r].result = Rejected(outcome.message)
            /\ Len(runs[r].waits) = k - 1

\* a rate-limited first attempt, then the quota error on the second: the
\* run is rejected with it after two calls and one wait
C22_Witness ==
  \E r \in DOMAIN runs :
    /\ runs[r].attempts =
         <<Rejected(RateLimitExceeded), Rejected(QuotaExceeded)>>
    /\ runs[r].pc = "settled"
    /\ runs[r].waits = <<initialDelay>>

\* the state of a run between the first call of fn and the settling of
\* retryWithBackoff
Retrying(r) ==
  r \in DOMAIN runs /\ runs[r].pc \in {"fetching", "backoff"}

\* at most maxRetries calls; fulfilled with the value of the first
\* successful call; rejected with the error of the last call when every call
\* was rate limited
C23_Outcome ==
  \A r \in DOMAIN runs :
    LET run == runs[r]
        n == Len(run.attempts)
    IN  /\ Calls(run) <= maxRetries
        /\ \A k \in 1..(n - 1) : ~run.attempts[k].ok
        /\ (run.pc = "settled" /\ run.attempts[n].ok) =>
             run.result = run.attempts[n]
        /\ (run.pc = "settled"
              /\ \A k \in 1..n : IsRateLimitError(run.attempts[k])) =>
             /\ n = maxRetries
             /\ run.result = Rejected(run.attempts[n].message)

\* C23: retryWithBackoff always terminates after at most maxRetries calls of
\* fn: it resolves with the value of the first successful call, and if every
\* call fails with a rate-limit error it rejects with the error of the last
\* call.
C23_Terminates ==
  /\ []C23_Outcome
  /\ \A r \in 1..MaxInFlight : Retrying(r) ~> ~Retrying(r)

\* three rate-limited calls: rejected with the rate-limit error
C23_Witness ==
  \E r \in DOMAIN runs :
    /\ runs[r].pc = "settled"
    /\ runs[r].attempts = <<Rejected(RateLimitExceeded),
                            Rejected(RateLimitExceeded),
                            Rejected(RateLimitExceeded)>>
    /\ runs[r].result = Rejected(RateLimitExceeded)

\* C24: once the rate-limit message is shown to the user, the system retries
\* the request by itself: a call of fn is under way or scheduled by a timer.
C24_RetryAfterMessage ==
  error = RateLimitUserMessage => \E r \in DOMAIN runs : Retrying(r)

\* C25: after Home or New Analysis, analysis stays null until a run started
\* after the reset succeeds: while the only run in flight is one that was
\* started before the reset, no step makes analysis non-null.
C25_ResetHolds ==
  [][(~analysis.present /\ runs # <<>>
        /\ \A r \in DOMAIN runs : runs[r].reset) =>
       ~analysis'.present]_vars

\* C26: every run that sets loading = true eventually sets loading = false,
\* on every path, when every awaited external call eventually settles.
C26_LoadingEnds == loading ~> ~loading

\* the path through the API error after three rate-limited attempts has
\* ended with loading = false
C26_Witness ==
  /\ ~loading
  /\ runs = <<>>
  /\ error = RateLimitUserMessage

\* the steps in which an analyzeTermSheet call fails: no files or no API key
\* at the click, a file that cannot be read, a rejected retryWithBackoff, a
\* response without JSON
RunFails ==
  \/ ClickAnalyze /\ Len(runs') = Len(runs)
  \/ \E r \in DOMAIN runs :
       /\ Len(runs') < Len(runs)
       /\ \/ runs[r].pc = "reading"
          \/ /\ runs[r].pc = "settled"
             /\ ~runs[r].result.ok \/ runs[r].result.kind = "text"

\* C27: when an analyzeTermSheet run fails, the stored analysis is left
\* unchanged: of the component state only error and loading are modified,
\* and a non-empty error message is set.
C27_FailureKeepsAnalysis ==
  [][RunFails =>
       /\ analysis' = analysis
       /\ error' # ""
       /\ UNCHANGED <<files, showLanding, uploadCollapsed, exitScenario,
                      scenarios>>]_vars

\* a run started over a stored analysis has failed to parse its response
C27_Witness ==
  /\ analysis.present
  /\ error = ParseFailed
  /\ ~loading
  /\ runs = <<>>

\* C29: retryWithBackoff waits only between attempts: the wait after the
\* i-th failed rate-limited attempt is initialDelay * 2^i ms and is followed
\* by another call of fn, so there is no wait once maxRetries attempts have
\* failed.
C29_WaitsBetweenAttempts ==
  \A r \in DOMAIN runs :
    /\ \A k \in DOMAIN runs[r].waits :
         runs[r].waits[k] = initialDelay * 2^(k - 1)
    /\ runs[r].pc = "backoff" => Len(runs[r].attempts) < maxRetries
    /\ Len(runs[r].waits) < maxRetries

\* C30: at most one analyzeTermSheet run is in flight at any time; it was
\* started with at least one file selected, and loading is true from its
\* start to its end, across resets and file re-selection.
C30_OneRunInFlight ==
  /\ Len(runs) <= 1
  /\ runs # <<>> => loading
  /\ \A r \in DOMAIN runs : runs[r].files > 0

\* a run still in flight after a reset and a new selection of files
C30_Witness ==
  /\ Len(runs) = 1
  /\ runs[1].reset
  /\ files = 2
  /\ runs[1].files = 1
  /\ loading
====
